---------------------------- MODULE Spec2Model ----------------------------
(***************************************************************************)
(* Model of package sixteen (draw/segdisp/sixteen/sixteen.go): the state   *)
(* of a 16-segment Display, its mutators, the sizing function Required and *)
(* the Draw orchestration that issues one rasterizer request per lit       *)
(* segment and commits the braille canvas onto the caller's canvas.        *)
(***************************************************************************)
EXTENDS Integers, Sequences, FiniteSets, TLC

(* ------------------------------ Segment ------------------------------ *)
\* const ( segmentUnknown Segment = iota; A1; ...; N; segmentMax )
segmentUnknown == 0
A1 == 1
A2 == 2
B == 3
C == 4
D1 == 5
D2 == 6
E == 7
F == 8
G1 == 9
G2 == 10
H == 11
J == 12
K == 13
L == 14
M == 15
N == 16
segmentMax == 17

\* The 16 valid segments (the keys of segmentNames).
AllSegments == {A1, A2, B, C, D1, D2, E, F, G1, G2, H, J, K, L, M, N}

\* characterSegments maps characters that can be displayed on their segments.
characterSegments ==
    (" " :> <<>>)
    @@ ("!" :> <<B, C>>)
    @@ ("\"" :> <<J, B>>)
    @@ ("#" :> <<J, B, G1, G2, M, C, D1, D2>>)
    @@ ("$" :> <<A1, A2, F, J, G1, G2, M, C, D1, D2>>)
    @@ ("%" :> <<A1, F, J, K, G1, G2, N, M, C, D2>>)
    @@ ("&" :> <<A1, H, J, G1, E, L, D1, D2>>)
    @@ ("'" :> <<J>>)
    @@ ("(" :> <<K, L>>)
    @@ (")" :> <<H, N>>)
    @@ ("*" :> <<H, J, K, G1, G2, N, M, L>>)
    @@ ("+" :> <<J, G1, G2, M>>)
    @@ ("," :> <<N>>)
    @@ ("-" :> <<G1, G2>>)
    @@ ("/" :> <<N, K>>)
    @@ ("0" :> <<A1, A2, F, K, B, E, N, C, D1, D2>>)
    @@ ("1" :> <<K, B, C>>)
    @@ ("2" :> <<A1, A2, B, G1, G2, E, D1, D2>>)
    @@ ("3" :> <<A1, A2, B, G2, C, D1, D2>>)
    @@ ("4" :> <<F, B, G1, G2, C>>)
    @@ ("5" :> <<A1, A2, F, G1, L, D1, D2>>)
    @@ ("6" :> <<A1, A2, F, G1, G2, E, C, D1, D2>>)
    @@ ("7" :> <<A1, A2, B, C>>)
    @@ ("8" :> <<A1, A2, F, B, G1, G2, E, C, D1, D2>>)
    @@ ("9" :> <<A1, A2, F, B, G1, G2, C, D1, D2>>)
    @@ (":" :> <<J, M>>)
    @@ (";" :> <<J, N>>)
    @@ ("<" :> <<K, G1, L>>)
    @@ ("=" :> <<G1, G2, D1, D2>>)
    @@ (">" :> <<H, G2, N>>)
    @@ ("?" :> <<A1, A2, B, G2, M>>)
    @@ ("@" :> <<A1, A2, F, J, B, G2, E, D1, D2>>)
    @@ ("A" :> <<A1, A2, F, B, G1, G2, E, C>>)
    @@ ("B" :> <<A1, A2, J, B, G2, M, C, D1, D2>>)
    @@ ("C" :> <<A1, A2, F, E, D1, D2>>)
    @@ ("D" :> <<A1, A2, J, B, M, C, D1, D2>>)
    @@ ("E" :> <<A1, A2, F, G1, E, D1, D2>>)
    @@ ("F" :> <<A1, A2, F, G1, E>>)
    @@ ("G" :> <<A1, A2, F, G2, E, C, D1, D2>>)
    @@ ("H" :> <<F, B, G1, G2, E, C>>)
    @@ ("I" :> <<A1, A2, J, M, D1, D2>>)
    @@ ("J" :> <<B, E, C, D1, D2>>)
    @@ ("K" :> <<F, K, G1, E, L>>)
    @@ ("L" :> <<F, E, D1, D2>>)
    @@ ("M" :> <<F, H, K, B, E, C>>)
    @@ ("N" :> <<F, H, B, E, L, C>>)
    @@ ("O" :> <<A1, A2, F, B, E, C, D1, D2>>)
    @@ ("P" :> <<A1, A2, F, B, G1, G2, E>>)
    @@ ("Q" :> <<A1, A2, F, B, E, L, C, D1, D2>>)
    @@ ("R" :> <<A1, A2, F, B, G1, G2, E, L>>)
    @@ ("S" :> <<A1, A2, F, G1, G2, C, D1, D2>>)
    @@ ("T" :> <<A1, A2, J, M>>)
    @@ ("U" :> <<F, B, E, C, D1, D2>>)
    @@ ("V" :> <<F, K, E, N>>)
    @@ ("W" :> <<F, E, N, L, C, B>>)
    @@ ("X" :> <<H, K, N, L>>)
    @@ ("Y" :> <<F, B, G1, G2, C, D1, D2>>)
    @@ ("Z" :> <<A1, A2, K, N, D1, D2>>)
    @@ ("[" :> <<A2, J, M, D2>>)
    @@ ("\\" :> <<H, L>>)
    @@ ("]" :> <<A1, J, M, D1>>)
    @@ ("^" :> <<N, L>>)
    @@ ("_" :> <<D1, D2>>)
    @@ ("U+0060" :> <<H>>)
    @@ ("a" :> <<G1, E, M, D1, D2>>)
    @@ ("b" :> <<F, G1, E, M, D1>>)
    @@ ("c" :> <<G1, E, D1>>)
    @@ ("d" :> <<B, G2, M, C, D2>>)
    @@ ("e" :> <<G1, E, N, D1>>)
    @@ ("f" :> <<A2, J, G1, G2, M>>)
    @@ ("g" :> <<A1, F, J, G1, M, D1>>)
    @@ ("h" :> <<F, G1, E, M>>)
    @@ ("i" :> <<M>>)
    @@ ("j" :> <<J, E, M, D1>>)
    @@ ("k" :> <<J, K, M, L>>)
    @@ ("l" :> <<F, E>>)
    @@ ("m" :> <<G1, G2, E, M, C>>)
    @@ ("n" :> <<G1, E, M>>)
    @@ ("o" :> <<G1, E, M, D1>>)
    @@ ("p" :> <<A1, F, J, G1, E>>)
    @@ ("q" :> <<A1, F, J, G1, M>>)
    @@ ("r" :> <<G1, E>>)
    @@ ("s" :> <<A1, F, G1, M, D1>>)
    @@ ("t" :> <<F, G1, E, D1>>)
    @@ ("u" :> <<E, M, D1>>)
    @@ ("v" :> <<E, N>>)
    @@ ("w" :> <<E, N, L, C>>)
    @@ ("x" :> <<H, K, N, L>>)
    @@ ("y" :> <<J, B, G2, C, D2>>)
    @@ ("z" :> <<G1, N, D1>>)
    @@ ("{" :> <<A2, J, G1, M, D2>>)
    @@ ("|" :> <<J, M>>)
    @@ ("}" :> <<A1, J, G2, M, D1>>)
    @@ ("~" :> <<K, G1, G2, N>>)

(* ------------------------------ bounds ------------------------------- *)
\* Segment values offered to SetSegment / ClearSegment / ToggleSegment:
\* both sentinels, one value beyond each, and valid segments of each kind
\* (plain straight, slope-skipping straight, diagonal).
SegInputs == {segmentUnknown - 1, segmentUnknown, A1, J, H, segmentMax, segmentMax + 1}

\* Characters offered to SetCharacter: "8" and "*" together light all 16
\* segments, " " lights none, "." and U+1F600 are absent from the table.
CharInputs == {"8", "*", " ", ".", "U+1F600"}

\* Characters the table is queried with: every key plus the absent ones.
CharQueries == DOMAIN characterSegments \cup {".", "U+1F600"}

\* Option lists passed to New, Clear and Draw (every option is a CellOpts).
OptionLists == {<<>>, << <<>> >>, << <<"FgColor">>, <<"FgColor", "BgColor">> >>}

\* Cell areas handed to Required: origins in 0..MaxOrigin on each axis and
\* sizes from empty to MaxCols x MaxRows.
MaxOrigin == 3
MaxCols == 9
MaxRows == 8

VARIABLES
    segments,   \* Display.segments: map[Segment]bool, a function on its keys
    cellOpts,   \* Display.cellOpts
    op,         \* the operation executed last
    arg,        \* its argument (segment, character or option list)
    err,        \* the error it returned
    cvsIn,      \* the canvas handed to the last Draw, before the call
    cvsOut,     \* the same canvas after the call
    calls,      \* the rasterizer requests and the commit the last Draw issued
    cellArea,   \* the argument of Required
    needAr,     \* the result of Required(cellArea)
    needAr2     \* the result of Required on the area of needAr

vars == <<segments, cellOpts, op, arg, err, cvsIn, cvsOut, calls, cellArea, needAr, needAr2>>
drawVars == <<cvsIn, cvsOut, calls>>
reqVars == <<cellArea, needAr, needAr2>>

(* ------------------------------ errors ------------------------------- *)
\* An error value: its kind and, for a wrapped rasterizer failure, the
\* segment named in the message.
Err(kind, seg) == [kind |-> kind, seg |-> seg]
Nil == Err("nil", segmentUnknown)

(* --------------------------- Display state --------------------------- *)
\* d.segments[s] read: a missing key reads as false.
Lit(segs, s) == s \in DOMAIN segs /\ segs[s]
LitSet(segs) == {s \in DOMAIN segs : segs[s]}

\* d.segments[s] = v
MapPut(segs, s, v) == [t \in DOMAIN segs \cup {s} |-> IF t = s THEN v ELSE segs[t]]

EmptyMap == [t \in {} |-> FALSE]

\* opt.set(d) for each option in turn; CellOpts assigns d.cellOpts.
\* ApplyOpts keeping the first option instead of the last.
ApplyOptsFirstWins(cOpts, opts) ==
    IF opts = <<>> THEN cOpts ELSE Head(opts)

RECURSIVE ApplyOpts(_, _)
ApplyOpts(cOpts, opts) ==
    IF opts = <<>> THEN cOpts ELSE ApplyOpts(Head(opts), Tail(opts))

SetSegmentFn(segs, s) ==
    IF s <= segmentUnknown \/ s >= segmentMax
    THEN [segments |-> segs, err |-> Err("unknown segment", s)]
    ELSE [segments |-> MapPut(segs, s, TRUE), err |-> Nil]

\* ClearSegmentFn with the upper bound of the range check off by one.
ClearSegmentFnOffByOne(segs, s) ==
    IF s <= segmentUnknown \/ s > segmentMax
    THEN [segments |-> segs, err |-> Err("unknown segment", s)]
    ELSE [segments |-> MapPut(segs, s, FALSE), err |-> Nil]

ClearSegmentFn(segs, s) ==
    IF s <= segmentUnknown \/ s >= segmentMax
    THEN [segments |-> segs, err |-> Err("unknown segment", s)]
    ELSE [segments |-> MapPut(segs, s, FALSE), err |-> Nil]

\* ToggleSegmentFn that tests the presence of the key, not its value.
ToggleSegmentFnByKey(segs, s) ==
    IF s <= segmentUnknown \/ s >= segmentMax
    THEN [segments |-> segs, err |-> Err("unknown segment", s)]
    ELSE IF s \in DOMAIN segs
         THEN [segments |-> MapPut(segs, s, FALSE), err |-> Nil]
         ELSE [segments |-> MapPut(segs, s, TRUE), err |-> Nil]

ToggleSegmentFn(segs, s) ==
    IF s <= segmentUnknown \/ s >= segmentMax
    THEN [segments |-> segs, err |-> Err("unknown segment", s)]
    ELSE IF Lit(segs, s)
         THEN [segments |-> MapPut(segs, s, FALSE), err |-> Nil]
         ELSE [segments |-> MapPut(segs, s, TRUE), err |-> Nil]

\* SetEach that starts from a cleared display.
SetEachFresh(segs, seg) ==
    [segments |-> [t \in {seg[i] : i \in 1..Len(seg)} |-> TRUE], err |-> Nil]

\* for _, s := range seg { if err := d.SetSegment(s); err != nil { return err } }
RECURSIVE SetEach(_, _)
SetEach(segs, seg) ==
    IF seg = <<>>
    THEN [segments |-> segs, err |-> Nil]
    ELSE LET r == SetSegmentFn(segs, Head(seg))
         IN IF r.err # Nil THEN r ELSE SetEach(r.segments, Tail(seg))

SetCharacterFn(segs, c) ==
    IF c \notin DOMAIN characterSegments
    THEN [segments |-> segs, err |-> Err("unsupported character", segmentUnknown)]
    ELSE SetEach(segs, characterSegments[c])

(* ----------------------------- geometry ------------------------------ *)
Pt(x, y) == [X |-> x, Y |-> y]

\* image.Rect: a well-formed rectangle, swapping coordinates where needed.
Rect(x0, y0, x1, y1) ==
    [Min |-> Pt(IF x0 > x1 THEN x1 ELSE x0, IF y0 > y1 THEN y1 ELSE y0),
     Max |-> Pt(IF x0 > x1 THEN x0 ELSE x1, IF y0 > y1 THEN y0 ELSE y1)]

\* image.ZR
ZR == Rect(0, 0, 0, 0)

Dx(r) == r.Max.X - r.Min.X
Dy(r) == r.Max.Y - r.Min.Y

\* MinCols, MinRows: the smallest valid cell area.
MinCols == 6
MinRows == 5

\* aspectRatio is the desired aspect ratio of a single segment display.
aspectRatio == Pt(3, 5)

\* braille.ColMult, braille.RowMult: pixels per cell on each axis.
ColMult == 2
RowMult == 4

\* area.WithRatio: the largest rectangle of the given ratio with the same
\* origin that fits into the area; the zero rectangle for a zero area.
WithRatio(area, ratio) ==
    IF area = ZR
    THEN ZR
    ELSE LET wFact == Dx(area) \div ratio.X
             hFact == Dy(area) \div ratio.Y
             fact == IF wFact < hFact THEN wFact ELSE hFact
         IN Rect(area.Min.X, area.Min.Y,
                 ratio.X * fact + area.Min.X, ratio.Y * fact + area.Min.Y)

\* int(math.Ceil(float64(a) / b)) for b > 0.
CeilDiv(a, b) == -((-a) \div b)

\* Required returns the cell area needed to draw one display.
RequiredFn(ca) ==
    IF Dx(ca) < MinCols \/ Dy(ca) < MinRows
    THEN [area |-> ZR, err |-> Err("area too small", segmentUnknown)]
    ELSE LET bcAr == Rect(ca.Min.X, ca.Min.Y, ca.Max.X * ColMult, ca.Max.Y * RowMult)
             bcArAdj == WithRatio(bcAr, aspectRatio)
             needCols == CeilDiv(Dx(bcArAdj), ColMult)
             needRows == CeilDiv(Dy(bcArAdj), RowMult)
         IN [area |-> Rect(ca.Min.X, ca.Min.Y, ca.Min.X + needCols, ca.Min.Y + needRows),
             err |-> Nil]

(* ------------------------------ canvas ------------------------------- *)
\* A cell canvas: its area and what its cells show, either the content it
\* had when the caller handed it over (stale) or a committed braille
\* canvas of area ar showing the segments in segs.
Canvas(area, stale, ar, segs) == [area |-> area, stale |-> stale, ar |-> ar, segs |-> segs]
StaleCanvas(cols, rows) == Canvas(Rect(0, 0, cols, rows), TRUE, ZR, {})
NoCanvas == Canvas(ZR, TRUE, ZR, {})

\* Sizes of the canvases handed to Draw: below the minimum, the minimum,
\* and a larger one.
CanvasSizes == {<<5, 5>>, <<6, 5>>, <<7, 9>>}

\* What goes wrong in the collaborators during one Draw: nothing, the
\* creation of the braille canvas, the rasterizer request for one segment,
\* or the commit, which then has written nothing or some of the cells.
Fault(kind, seg) == [kind |-> kind, seg |-> seg]
NoFault == Fault("none", segmentUnknown)
Faults(segs) ==
    {NoFault, Fault("braille.New", segmentUnknown), Fault("CopyTo", segmentUnknown),
     Fault("CopyTo partial", segmentUnknown)}
        \cup {Fault("segment", s) : s \in segs}

\* braille.New(ar) fails when the fault says so.
\* bc.Area() is the pixel area of the cells of ar.
toBraille(cvs, fault) ==
    LET req == RequiredFn(cvs.area)
    IN IF req.err # Nil
       THEN [err |-> Err("Required", segmentUnknown), ar |-> ZR, bcAr |-> ZR]
       ELSE IF fault.kind = "braille.New"
            THEN [err |-> Err("braille.New", segmentUnknown), ar |-> ZR, bcAr |-> ZR]
            ELSE [err |-> Nil, ar |-> req.area,
                  bcAr |-> WithRatio(Rect(0, 0, Dx(req.area) * ColMult, Dy(req.area) * RowMult),
                                     aspectRatio)]

(* ------------------------------- Draw -------------------------------- *)
\* Options of the rasterizers, each a sequence of strings.
SegCellOpts(cOpts) == <<"CellOpts">> \o cOpts
DiagonalCellOpts(cOpts) == <<"DiagonalCellOpts">> \o cOpts
SkipSlopesLTE2 == <<"SkipSlopesLTE", "2">>
ReverseSlopes == <<"ReverseSlopes">>

\* The straight segments in drawing order with their own options.
hvSegArgs ==
    << [s |-> A1, opts |-> <<>>],
       [s |-> A2, opts |-> <<>>],
       [s |-> F, opts |-> <<>>],
       [s |-> J, opts |-> <<SkipSlopesLTE2>>],
       [s |-> B, opts |-> <<ReverseSlopes>>],
       [s |-> G1, opts |-> <<SkipSlopesLTE2>>],
       [s |-> G2, opts |-> <<SkipSlopesLTE2>>],
       [s |-> E, opts |-> <<>>],
       [s |-> M, opts |-> <<SkipSlopesLTE2>>],
       [s |-> C, opts |-> <<ReverseSlopes>>],
       [s |-> D1, opts |-> <<ReverseSlopes>>],
       [s |-> D2, opts |-> <<ReverseSlopes>>] >>

\* The diagonal segments in drawing order.
diaSegs == <<H, K, N, L>>

\* A request to a collaborator: segment.HV, segment.Diagonal or bc.CopyTo.
Request(fn, seg, opts) == [fn |-> fn, seg |-> seg, opts |-> opts]

\* The base options: the cell options of the display, when it has any.
BaseOpts(cOpts) == IF Len(cOpts) > 0 THEN <<SegCellOpts(cOpts)>> ELSE <<>>
DiaBaseOpts(cOpts) == IF Len(cOpts) > 0 THEN <<DiagonalCellOpts(cOpts)>> ELSE <<>>

\* HVStep that assigns the extended options to the outer sOpts (= for :=).
HVStepLeak(st, segArg, segs, fault) ==
    IF ~Lit(segs, segArg.s)
    THEN st
    ELSE LET sOpts == st.sOpts \o segArg.opts
         IN [sOpts |-> sOpts,
             calls |-> Append(st.calls, Request("HV", segArg.s, sOpts)),
             err |-> IF fault = Fault("segment", segArg.s) THEN Err("segment.HV", segArg.s) ELSE Nil]

\* One iteration of the loop over hvSegArgs.  st holds the loop's outer
\* sOpts, the requests issued so far and the error; the inner sOpts is a
\* new variable (:=), so the outer one is left as it was.
HVStep(st, segArg, segs, fault) ==
    IF ~Lit(segs, segArg.s)
    THEN st
    ELSE LET sOpts == st.sOpts \o segArg.opts
         IN [sOpts |-> st.sOpts,
             calls |-> Append(st.calls, Request("HV", segArg.s, sOpts)),
             err |-> IF fault = Fault("segment", segArg.s) THEN Err("segment.HV", segArg.s) ELSE Nil]

RECURSIVE HVLoop(_, _, _, _)
HVLoop(st, i, segs, fault) ==
    IF i > Len(hvSegArgs) \/ st.err # Nil
    THEN st
    ELSE HVLoop(HVStep(st, hvSegArgs[i], segs, fault), i + 1, segs, fault)

\* DiaStep without the test that skips an unlit segment.
DiaStepNoSkip(st, seg, segs, fault) ==
    [sOpts |-> st.sOpts,
     calls |-> Append(st.calls, Request("Diagonal", seg, st.sOpts)),
     err |-> IF fault = Fault("segment", seg) THEN Err("segment.Diagonal", seg) ELSE Nil]

\* One iteration of the loop over the diagonal segments.
DiaStep(st, seg, segs, fault) ==
    IF ~Lit(segs, seg)
    THEN st
    ELSE [sOpts |-> st.sOpts,
          calls |-> Append(st.calls, Request("Diagonal", seg, st.sOpts)),
          err |-> IF fault = Fault("segment", seg) THEN Err("segment.Diagonal", seg) ELSE Nil]

RECURSIVE DiaLoop(_, _, _, _)
DiaLoop(st, i, segs, fault) ==
    IF i > Len(diaSegs) \/ st.err # Nil
    THEN st
    ELSE DiaLoop(DiaStep(st, diaSegs[i], segs, fault), i + 1, segs, fault)

\* The segments the requests have drawn.
Drawn(reqs) == {reqs[i].seg : i \in {k \in 1..Len(reqs) : reqs[k].fn # "CopyTo"}}

\* bc.CopyTo(cvs)
CopyTo(bcArea, drawn, cvs, fault) ==
    [cvs |-> IF fault.kind = "CopyTo" THEN cvs ELSE Canvas(cvs.area, FALSE, bcArea, drawn),
     err |-> IF fault.kind \in {"CopyTo", "CopyTo partial"}
             THEN Err("CopyTo", segmentUnknown) ELSE Nil]

\* DrawFn with the commit deferred, so that it also runs when a rasterizer
\* request has failed.
DrawFnDeferredCopy(segs, cOpts, cvs, opts, fault) ==
    LET cOpts1 == ApplyOpts(cOpts, opts)
        tb == toBraille(cvs, fault)
        hv == HVLoop([sOpts |-> BaseOpts(cOpts1), calls |-> <<>>, err |-> Nil], 1, segs, fault)
        dia == IF hv.err # Nil THEN hv
               ELSE DiaLoop([sOpts |-> DiaBaseOpts(cOpts1), calls |-> hv.calls, err |-> Nil], 1, segs, fault)
        cp == CopyTo(tb.ar, Drawn(dia.calls), cvs, fault)
    IN IF tb.err # Nil
       THEN [segments |-> segs, cellOpts |-> cOpts1, err |-> tb.err, calls |-> <<>>, cvs |-> cvs]
       ELSE [segments |-> segs, cellOpts |-> cOpts1,
             err |-> IF dia.err # Nil THEN dia.err ELSE cp.err,
             calls |-> Append(dia.calls, Request("CopyTo", segmentUnknown, <<>>)), cvs |-> cp.cvs]

\* Draw draws the current state of the segment display onto the canvas.
DrawFn(segs, cOpts, cvs, opts, fault) ==
    LET cOpts1 == ApplyOpts(cOpts, opts)
        tb == toBraille(cvs, fault)
        hv == HVLoop([sOpts |-> BaseOpts(cOpts1), calls |-> <<>>, err |-> Nil], 1, segs, fault)
        dia == DiaLoop([sOpts |-> DiaBaseOpts(cOpts1), calls |-> hv.calls, err |-> Nil], 1, segs, fault)
        cp == CopyTo(tb.ar, Drawn(dia.calls), cvs, fault)
    IN IF tb.err # Nil
       THEN [segments |-> segs, cellOpts |-> cOpts1, err |-> tb.err, calls |-> <<>>, cvs |-> cvs]
       ELSE IF hv.err # Nil
       THEN [segments |-> segs, cellOpts |-> cOpts1, err |-> hv.err, calls |-> hv.calls, cvs |-> cvs]
       ELSE IF dia.err # Nil
       THEN [segments |-> segs, cellOpts |-> cOpts1, err |-> dia.err, calls |-> dia.calls, cvs |-> cvs]
       ELSE [segments |-> segs, cellOpts |-> cOpts1, err |-> cp.err,
             calls |-> Append(dia.calls, Request("CopyTo", segmentUnknown, <<>>)), cvs |-> cp.cvs]

(* ----------------------------- operations ---------------------------- *)
Returns(o, a, e) == op' = o /\ arg' = a /\ err' = e
\* Required has not run.
NoResult == [area |-> ZR, err |-> Err("none", segmentUnknown)]
NoDraw == cvsIn' = NoCanvas /\ cvsOut' = NoCanvas /\ calls' = <<>>

\* New creates a new segment display; initially all the segments are off.
Init ==
    \E opts \in OptionLists :
        /\ segments = EmptyMap
        /\ cellOpts = ApplyOpts(<<>>, opts)
        /\ op = "New" /\ arg = opts /\ err = Nil
        /\ cvsIn = NoCanvas /\ cvsOut = NoCanvas /\ calls = <<>>
        /\ cellArea = ZR /\ needAr = NoResult /\ needAr2 = NoResult

Clear(opts) ==
    /\ cellOpts' = ApplyOpts(cellOpts, opts)
    /\ segments' = EmptyMap
    /\ Returns("Clear", opts, Nil)
    /\ NoDraw
    /\ UNCHANGED reqVars

SetSegment(s) ==
    /\ \E r \in {SetSegmentFn(segments, s)} :
          segments' = r.segments /\ Returns("SetSegment", s, r.err)
    /\ NoDraw
    /\ UNCHANGED <<cellOpts, reqVars>>

ClearSegment(s) ==
    /\ \E r \in {ClearSegmentFn(segments, s)} :
          segments' = r.segments /\ Returns("ClearSegment", s, r.err)
    /\ NoDraw
    /\ UNCHANGED <<cellOpts, reqVars>>

ToggleSegment(s) ==
    /\ \E r \in {ToggleSegmentFn(segments, s)} :
          segments' = r.segments /\ Returns("ToggleSegment", s, r.err)
    /\ NoDraw
    /\ UNCHANGED <<cellOpts, reqVars>>

SetCharacter(c) ==
    /\ \E r \in {SetCharacterFn(segments, c)} :
          segments' = r.segments /\ Returns("SetCharacter", c, r.err)
    /\ NoDraw
    /\ UNCHANGED <<cellOpts, reqVars>>

Draw(cvs, opts, fault) ==
    /\ \E r \in {DrawFn(segments, cellOpts, cvs, opts, fault)} :
             /\ segments' = r.segments
             /\ cellOpts' = r.cellOpts
             /\ Returns("Draw", opts, r.err)
             /\ cvsIn' = cvs
             /\ cvsOut' = r.cvs
             /\ calls' = r.calls
    /\ UNCHANGED reqVars

Next ==
    \/ \E opts \in OptionLists : Clear(opts)
    \/ \E s \in SegInputs : SetSegment(s)
    \/ \E s \in SegInputs : ClearSegment(s)
    \/ \E s \in SegInputs : ToggleSegment(s)
    \/ \E c \in CharInputs : SetCharacter(c)
    \/ \E size \in CanvasSizes, opts \in OptionLists, fault \in Faults(LitSet(segments)) :
          Draw(StaleCanvas(size[1], size[2]), opts, fault)

Spec == Init /\ [][Next]_vars

(* ------------------------ Required on its own ------------------------ *)
CellAreas ==
    {Rect(x, y, x + cols, y + rows) :
        x \in 0..MaxOrigin, y \in 0..MaxOrigin,
        cols \in 0..MaxCols, rows \in 0..MaxRows}

InitRequired ==
    /\ segments = EmptyMap /\ cellOpts = <<>>
    /\ op = "New" /\ arg = <<>> /\ err = Nil
    /\ cvsIn = NoCanvas /\ cvsOut = NoCanvas /\ calls = <<>>
    /\ cellArea \in CellAreas
    /\ needAr = NoResult /\ needAr2 = NoResult

Required ==
    /\ needAr = NoResult
    /\ needAr' = RequiredFn(cellArea)
    /\ UNCHANGED <<segments, cellOpts, op, arg, err, drawVars, cellArea, needAr2>>

RequiredAgain ==
    /\ needAr # NoResult /\ needAr.err = Nil
    /\ needAr2 = NoResult
    /\ needAr2' = RequiredFn(needAr.area)
    /\ UNCHANGED <<segments, cellOpts, op, arg, err, drawVars, cellArea, needAr>>

NextRequired == Required \/ RequiredAgain

SpecRequired == InitRequired /\ [][NextRequired]_vars


(* ------------------------------ claims ------------------------------- *)
Mutators == {"SetSegment", "ClearSegment", "ToggleSegment"}
Valid(s) == s \in AllSegments
Last(seq) == seq[Len(seq)]
Range(seq) == {seq[i] : i \in 1..Len(seq)}
PreCommitErrors == {"Required", "braille.New", "segment.HV", "segment.Diagonal"}
CommitCount(reqs) == Cardinality({i \in 1..Len(reqs) : reqs[i].fn = "CopyTo"})

\* C1: a Draw that returns an error because the area is too small, the
\* braille canvas cannot be created or a rasterizer request fails has issued
\* no request after the failing one and no commit, and the canvas is as it
\* was before the call; the canvas changes only in a call whose single commit
\* is its last request.
C1_DrawFailureLeavesCanvas ==
    [][op' = "Draw" =>
        /\ err'.kind \in PreCommitErrors =>
              /\ cvsOut' = cvsIn'
              /\ CommitCount(calls') = 0
              /\ err'.kind \in {"Required", "braille.New"} => calls' = <<>>
              /\ err'.kind \in {"segment.HV", "segment.Diagonal"} =>
                    /\ calls' # <<>>
                    /\ Last(calls').seg = err'.seg
                    /\ \A i \in 1..(Len(calls') - 1) : calls'[i].seg # err'.seg
        /\ cvsOut' # cvsIn' =>
              /\ CommitCount(calls') = 1
              /\ Last(calls').fn = "CopyTo"]_vars

\* A Draw whose request for J failed while segments drawn after J were lit.
C1_Witness ==
    /\ op = "Draw" /\ err = Err("segment.HV", J)
    /\ Lit(segments, D2) /\ Lit(segments, H)
    /\ Len(calls) >= 2 /\ cvsOut = cvsIn

\* C2 as stated: Draw leaves the segment flags and the styling options as
\* they were, whatever options it is given.
C2_DrawKeepsDisplay ==
    [][op' = "Draw" => segments' = segments /\ cellOpts' = cellOpts]_vars

\* C2 amended: Draw leaves the segment flags as they were; the styling
\* options are unchanged when Draw is given no option and are otherwise
\* those of the last option given.
C2_DrawKeepsSegments ==
    [][op' = "Draw" =>
        /\ segments' = segments
        /\ cellOpts' = IF arg' = <<>> THEN cellOpts ELSE Last(arg')]_vars

\* A failed Draw with two options on a display with lit segments.
C2_Witness ==
    /\ op = "Draw" /\ Len(arg) = 2 /\ err # Nil
    /\ cellOpts = <<"FgColor", "BgColor">>
    /\ LitSet(segments) # {}

\* C3: SetSegment, ClearSegment and ToggleSegment return an error and leave
\* the display unchanged for every segment value at or below segmentUnknown
\* or at or above segmentMax, and every key of the map is a valid segment.
C3_InvalidSegmentRejected ==
    /\ [](/\ DOMAIN segments \subseteq AllSegments
          /\ \A s \in {segmentUnknown - 2, segmentUnknown - 1, segmentUnknown,
                       segmentMax, segmentMax + 1, segmentMax + 2} :
                /\ SetSegmentFn(segments, s) = [segments |-> segments, err |-> Err("unknown segment", s)]
                /\ ClearSegmentFn(segments, s) = [segments |-> segments, err |-> Err("unknown segment", s)]
                /\ ToggleSegmentFn(segments, s) = [segments |-> segments, err |-> Err("unknown segment", s)])
    /\ [][(op' \in Mutators /\ ~Valid(arg')) =>
            /\ err' # Nil
            /\ segments' = segments
            /\ cellOpts' = cellOpts]_vars

\* ClearSegment(segmentMax) was refused on a display with lit segments.
C3_Witness ==
    /\ op = "ClearSegment" /\ arg = segmentMax /\ err # Nil
    /\ LitSet(segments) # {}

\* C7: SetCharacter of a character of the table succeeds and lights the
\* segments of the table besides those already lit; on a display with no
\* lit segment "8" lights exactly A1 A2 F B G1 G2 E C D1 D2; SetCharacter of
\* a character that is not in the table ("." is not) fails and changes
\* nothing.
C7_SetCharacterAdds ==
    /\ []( /\ "." \notin DOMAIN characterSegments
           /\ \A c \in CharQueries :
                LET r == SetCharacterFn(segments, c)
                IN IF c \in DOMAIN characterSegments
                   THEN /\ r.err = Nil
                        /\ LitSet(r.segments) = LitSet(segments) \cup Range(characterSegments[c])
                   ELSE /\ r.err # Nil
                        /\ r.segments = segments
           /\ LitSet(segments) = {} =>
                LitSet(SetCharacterFn(segments, "8").segments)
                    = {A1, A2, F, B, G1, G2, E, C, D1, D2} )
    /\ [][op' = "SetCharacter" =>
            IF arg' \in DOMAIN characterSegments
            THEN /\ err' = Nil
                 /\ LitSet(segments') = LitSet(segments) \cup Range(characterSegments[arg'])
            ELSE /\ err' # Nil
                 /\ segments' = segments]_vars

\* SetCharacter("8") on a display where H was lit: H stays lit.
C7_Witness ==
    /\ op = "SetCharacter" /\ arg = "8" /\ err = Nil
    /\ LitSet(segments) = {A1, A2, F, B, G1, G2, E, C, D1, D2, H}

\* C8: for every valid segment s, SetSegment lights s, ClearSegment puts it
\* out and ToggleSegment inverts it (a missing key counts as unlit), each
\* leaving the other segments as they were; SetSegment and ClearSegment are
\* idempotent, ClearSegment after SetSegment leaves s unlit, and two
\* ToggleSegment calls restore what was lit.
C8_SetClearToggle ==
    /\ [](\A s \in AllSegments :
            LET set == SetSegmentFn(segments, s)
                clr == ClearSegmentFn(segments, s)
                tog == ToggleSegmentFn(segments, s)
            IN /\ set.err = Nil /\ clr.err = Nil /\ tog.err = Nil
               /\ LitSet(set.segments) = LitSet(segments) \cup {s}
               /\ LitSet(clr.segments) = LitSet(segments) \ {s}
               /\ LitSet(tog.segments) = IF Lit(segments, s) THEN LitSet(segments) \ {s}
                                         ELSE LitSet(segments) \cup {s}
               /\ SetSegmentFn(set.segments, s) = set
               /\ ClearSegmentFn(clr.segments, s) = clr
               /\ ~Lit(ClearSegmentFn(set.segments, s).segments, s)
               /\ LitSet(ToggleSegmentFn(tog.segments, s).segments) = LitSet(segments))
    /\ [][(op' \in Mutators /\ Valid(arg')) =>
            /\ err' = Nil
            /\ op' = "SetSegment" => LitSet(segments') = LitSet(segments) \cup {arg'}
            /\ op' = "ClearSegment" => LitSet(segments') = LitSet(segments) \ {arg'}
            /\ op' = "ToggleSegment" =>
                  LitSet(segments') = IF Lit(segments, arg') THEN LitSet(segments) \ {arg'}
                                      ELSE LitSet(segments) \cup {arg'}]_vars

\* ToggleSegment(J) has put out J while A1 stays lit.
C8_Witness ==
    /\ op = "ToggleSegment" /\ arg = J /\ err = Nil
    /\ J \in DOMAIN segments /\ ~segments[J]
    /\ Lit(segments, A1)

\* C9: on a canvas of at least MinCols x MinRows cells, when the braille
\* canvas is created and no rasterizer request fails, Draw requests each lit
\* straight segment once in the order A1 A2 F J B G1 G2 E M C D1 D2, then
\* each lit diagonal segment once in the order H K N L, requests no unlit
\* segment, and commits once at the end; with no lit segment the commit is
\* the only request.
C9_DrawRequestsLitInOrder ==
    [][(/\ op' = "Draw"
        /\ Dx(cvsIn'.area) >= MinCols /\ Dy(cvsIn'.area) >= MinRows
        /\ err'.kind \notin {"braille.New", "segment.HV", "segment.Diagonal"}) =>
        LET IsLit(s) == Lit(segments, s)
            hv == SelectSeq(<<A1, A2, F, J, B, G1, G2, E, M, C, D1, D2>>, IsLit)
            dia == SelectSeq(<<H, K, N, L>>, IsLit)
        IN /\ [i \in 1..Len(calls') |-> <<calls'[i].fn, calls'[i].seg>>]
                = [i \in 1..Len(hv) |-> <<"HV", hv[i]>>]
                    \o [i \in 1..Len(dia) |-> <<"Diagonal", dia[i]>>]
                    \o << <<"CopyTo", segmentUnknown>> >>
           /\ LitSet(segments) = {} => Len(calls') = 1]_vars

\* A Draw of all 16 segments that succeeded.
C9_Witness ==
    /\ op = "Draw" /\ err = Nil
    /\ LitSet(segments) = AllSegments
    /\ Len(calls) = 17 /\ ~cvsOut.stale

\* C10: the options of every request for a straight segment are the cell
\* options of the display, when it has any, followed by the options of that
\* segment alone: SkipSlopesLTE(2) for J G1 G2 M, ReverseSlopes for B C D1
\* D2, none for A1 A2 F E.
C10_StraightSegmentOptions ==
    [][op' = "Draw" =>
        \A i \in 1..Len(calls') :
            calls'[i].fn = "HV" =>
                calls'[i].opts =
                    (IF cellOpts' = <<>> THEN <<>> ELSE << <<"CellOpts">> \o cellOpts' >>)
                    \o (IF calls'[i].seg \in {J, G1, G2, M} THEN << <<"SkipSlopesLTE", "2">> >>
                        ELSE IF calls'[i].seg \in {B, C, D1, D2} THEN << <<"ReverseSlopes">> >>
                        ELSE <<>>)]_vars

\* A Draw with cell options where E is requested after J, B and G1.
C10_Witness ==
    /\ op = "Draw" /\ cellOpts # <<>>
    /\ {J, B, G1, E, D2} \subseteq LitSet(segments)
    /\ \E i \in 1..Len(calls) : calls[i].fn = "HV" /\ calls[i].seg = D2

\* C4: on a cell area of at least MinCols x MinRows, at any origin, Required
\* succeeds and returns an area of the same origin with no more columns and
\* no more rows than the cell area.
C4_RequiredNoLarger ==
    (needAr # NoResult /\ Dx(cellArea) >= MinCols /\ Dy(cellArea) >= MinRows) =>
        /\ needAr.err = Nil
        /\ needAr.area.Min = cellArea.Min
        /\ Dx(needAr.area) <= Dx(cellArea)
        /\ Dy(needAr.area) <= Dy(cellArea)

\* C5: Required on the area a successful Required returned succeeds and
\* returns that area.
C5_RequiredIdempotent ==
    needAr2 # NoResult => needAr2 = needAr

\* C6: Required fails, returning the zero rectangle, exactly when the cell
\* area has fewer than MinCols columns or fewer than MinRows rows; on an area
\* of MinCols x MinRows it returns an area of at most MinCols x MinRows.
C6_RequiredMinimum ==
    needAr # NoResult =>
        /\ needAr.err # Nil <=> (Dx(cellArea) < MinCols \/ Dy(cellArea) < MinRows)
        /\ needAr.err # Nil => needAr.area = ZR
        /\ (Dx(cellArea) = MinCols /\ Dy(cellArea) = MinRows) =>
              /\ needAr.err = Nil
              /\ Dx(needAr.area) <= MinCols
              /\ Dy(needAr.area) <= MinRows

=============================================================================
